---- MODULE Spec2Model ----
(***************************************************************************)
(* A model of function_schema: guess_type and get_function_schema of       *)
(* src/function_schema/core.py, run on CPython 3.10 or later (typing.Union *)
(* accepts isinstance there; line 10 of core.py selects that branch).      *)
(*                                                                         *)
(* Python objects are records whose field "kind" tells the shape:          *)
(*   value      an instance: cls is the name of its class, val its repr    *)
(*   class      a plain class: name is __name__, base the built-in class   *)
(*              it is or derives from, members the names of an Enum class  *)
(*   Any        typing.Any                                                 *)
(*   generic    a typing alias: origin is typing.get_origin of it, params  *)
(*              tells whether it is subscripted (List[int]) or bare (List) *)
(*   Union      typing.Union[...] / X | Y, already flattened by typing     *)
(*   Literal    typing.Literal[...], values already deduplicated by typing *)
(*   Annotated  typing.Annotated[typ, *meta]                               *)
(*   list, dict a list / dict result                                       *)
(*   raise      an exception leaving the call                              *)
(*   ref        a reference to a mutable object of the heap                *)
(***************************************************************************)
EXTENDS Integers, Sequences, FiniteSets, TLC

VARIABLES hashseed, call, ret, heap, results, fields, expr

vars == <<hashseed, call, ret, heap, results, fields, expr>>

----------------------------------------------------------------------------
(* Bounds of the model *)

\* the number of hash seeds (PYTHONHASHSEED) the process may start with
NumSeeds == 6
\* the most members a typing.Union of the inputs has
MaxUnionLen == 3
\* the most values a typing.Literal of the inputs has
MaxLiteralLen == 2
\* the most parameters a function of the inputs has
MaxParams == 2
\* the most calls whose results are kept and mutated
MaxCalls == 2
\* the most elements a caller appends to one list of a result
MaxAppends == 2

----------------------------------------------------------------------------
(* Python values *)

Value(c, v) == [kind |-> "value", cls |-> c, val |-> v]
PyNone == Value("NoneType", "None")
PyStr(s) == Value("str", s)

\* bool(v) of a value: the falsy ones are None, False, 0, 0.0, "" and b""
Truthy(v) == ~ (v.cls = "NoneType" \/ v.val \in {"False", "0", "0.0", "", "b''"})

PyList(s) == [kind |-> "list", items |-> s]
EmptyDict == [kind |-> "dict", items |-> <<>>]
TypeError == [kind |-> "raise", exc |-> "TypeError"]

Raised(r) == r.kind = "raise"

----------------------------------------------------------------------------
(* Type expressions *)

Class(n, b) == [kind |-> "class", name |-> n, base |-> b, members |-> <<>>]
Builtin(n) == Class(n, n)
EnumClass(n, ms) == [kind |-> "class", name |-> n, base |-> "Enum", members |-> ms]
NoneType == Builtin("NoneType")
TypingAny == [kind |-> "Any"]
Generic(o, p) == [kind |-> "generic", origin |-> o, params |-> p]
Union(ts) == [kind |-> "Union", types |-> ts]
Literal(vs) == [kind |-> "Literal", values |-> vs]
Annotated(t, m) == [kind |-> "Annotated", typ |-> t, meta |-> m]

Color == EnumClass("Color", <<"RED", "GREEN">>)

\* type(v) of a value
TypeOf(v) == IF v.cls = "Color" THEN Color ELSE Builtin(v.cls)

\* typing.get_origin(T), as far as the code tests it
GetOrigin(T) ==
    CASE T.kind = "Annotated" -> "Annotated"
      [] T.kind = "Union" -> "Union"
      [] T.kind = "Literal" -> "Literal"
      [] T.kind = "generic" -> T.origin
      [] OTHER -> "None"

\* isinstance(T, type)
IsType(T) == T.kind = "class"

----------------------------------------------------------------------------
(* Sequences *)

Range(s) == {s[i] : i \in DOMAIN s}

\* the elements of s, each once, in the order they are first seen
RECURSIVE Dedupe(_)
Dedupe(s) ==
    IF s = <<>> THEN <<>>
    ELSE LET r == Dedupe(SubSeq(s, 1, Len(s) - 1))
         IN IF s[Len(s)] \in Range(r) THEN r ELSE Append(r, s[Len(s)])

RECURSIVE Fact(_)
Fact(n) == IF n <= 1 THEN 1 ELSE n * Fact(n - 1)

RemoveAt(s, i) == SubSeq(s, 1, i - 1) \o SubSeq(s, i + 1, Len(s))

\* the r-th permutation of s (r = 0 is s itself)
RECURSIVE NthPerm(_, _)
NthPerm(s, r) ==
    IF Len(s) <= 1 THEN s
    ELSE LET f == Fact(Len(s) - 1)
             i == ((r \div f) % Len(s)) + 1
         IN <<s[i]>> \o NthPerm(RemoveAt(s, i), r % f)

\* the list kept as it is, duplicates included
ListOfSet_KeepDuplicates(xs) == xs

\* list(set(xs)): the distinct elements of xs in the iteration order of a
\* set of str, which the hash seed of the process and the order of insertion
\* decide; hashseed 0 happens to give the order of insertion.
ListOfSet(xs) == NthPerm(Dedupe(xs), hashseed % Fact(Len(Dedupe(xs))))

\* typing.Union[tuple(ts)]: duplicates removed, a single member unwrapped
MakeUnion(ts) ==
    LET d == Dedupe(ts) IN IF Len(d) = 1 THEN d[1] ELSE Union(d)

----------------------------------------------------------------------------
(* guess_type, core.py 187-245 *)

Hashable(r) == r.kind = "value"

RECURSIVE guess_type(_)
guess_type(T) ==
    IF T.kind = "Any" THEN EmptyDict
    ELSE IF GetOrigin(T) = "Annotated" THEN guess_type(T.typ)
    ELSE IF GetOrigin(T) = "Union" THEN
        LET union_types == SelectSeq(T.types, LAMBDA t : t # NoneType)
            guessed == [i \in 1 .. Len(union_types) |-> guess_type(union_types[i])]
            types == SelectSeq(guessed, LAMBDA g : g # PyNone)
        IN IF \E i \in DOMAIN guessed : Raised(guessed[i]) THEN TypeError
           ELSE IF \E i \in DOMAIN types : ~ Hashable(types[i]) THEN TypeError
           ELSE LET deduped == ListOfSet(types)
                IN IF Len(deduped) = 1 THEN deduped[1] ELSE PyList(deduped)
    ELSE IF GetOrigin(T) = "Literal" THEN
        guess_type(MakeUnion([i \in 1 .. Len(T.values) |-> TypeOf(T.values[i])]))
    ELSE IF GetOrigin(T) \in {"list", "tuple"} THEN PyStr("array")
    ELSE IF GetOrigin(T) = "dict" THEN PyStr("object")
    ELSE IF ~ IsType(T) THEN PyNone
    ELSE IF T.name = "NoneType" THEN PyNone
    ELSE IF T.base = "str" THEN PyStr("string")
    ELSE IF T.base = "bool" THEN PyStr("boolean")
    ELSE IF T.base \in {"float", "int", "bool"} THEN PyStr("number")
    ELSE IF T.name = "list" THEN PyStr("array")
    ELSE IF T.name = "dict" THEN PyStr("object")
    ELSE PyNone

----------------------------------------------------------------------------
(* get_function_schema, core.py 60-184 *)

\* inspect._empty, the default of a parameter that declares none
Empty == [kind |-> "empty"]

Param(n, a, d) == [name |-> n, annotation |-> a, default |-> d]

\* isinstance(arg, type) and issubclass(arg, enum.Enum)
IsEnumClass(arg) == IsType(arg) /\ arg.base = "Enum"

\* isinstance(arg, (Doc, str))
IsDocOrStr(arg) == arg.kind = "value" /\ arg.cls \in {"Doc", "str"}

\* unwrap_doc(obj): the documentation of a Doc, str(obj) of anything else
unwrap_doc(obj) == PyStr(obj.val)

\* isinstance(None, T): "True", "False", or "raise" for the TypeError of an
\* argument isinstance does not accept.  A union is scanned member by member
\* and answers at the first member None is an instance of.  typing.Any as a
\* member answers False on CPython 3.11; line 155 has raised for every such
\* union before line 167 is reached.
RECURSIVE IsInstanceNone(_)
IsInstanceNone(T) ==
    CASE T.kind = "class" ->
            IF T \in {NoneType, Builtin("object")} THEN "True" ELSE "False"
      [] T.kind = "generic" -> IF T.params THEN "raise" ELSE "False"
      [] T.kind = "Union" ->
            LET first == T.types[1]
                rest == SubSeq(T.types, 2, Len(T.types))
                here == IF first.kind = "Any" THEN "False" ELSE IsInstanceNone(first)
            IN IF here # "False" \/ rest = <<>> THEN here
               ELSE IsInstanceNone(Union(rest))
      [] OTHER -> "raise"

\* param_args = typing.get_args(param.annotation)
param_args(param) ==
    IF param.annotation.kind = "Annotated"
    THEN <<param.annotation.typ>> \o param.annotation.meta
    ELSE <<>>

is_annotated(param) == GetOrigin(param.annotation) = "Annotated"

\* T, the first argument of Annotated or the annotation itself
EffectiveType(param) ==
    IF is_annotated(param) THEN param_args(param)[1] ELSE param.annotation

SynthDescription(name) == PyStr("The " \o name \o " parameter")

\* next(..., default) over the arguments an Annotated carries
Description(param) ==
    LET found == SelectSeq(param_args(param), IsDocOrStr)
    IN IF is_annotated(param) /\ found # <<>>
       THEN unwrap_doc(found[1])
       ELSE SynthDescription(param.name)

\* enum_ with the members of a bare enum class annotation taken as well
EnumSource_BareEnum(param) ==
    LET T == EffectiveType(param)
        found == SelectSeq(param_args(param), IsEnumClass)
    IN IF is_annotated(param) /\ found # <<>>
       THEN PyList([i \in 1 .. Len(found[1].members) |-> PyStr(found[1].members[i])])
       ELSE IF ~ is_annotated(param) /\ IsEnumClass(T)
       THEN PyList([i \in 1 .. Len(T.members) |-> PyStr(T.members[i])])
       ELSE IF GetOrigin(T) = "Literal" THEN PyList(T.values)
       ELSE PyNone

\* enum_ taken from the last enum class among the arguments instead of the
\* first
EnumSource_LastEnum(param) ==
    LET T == EffectiveType(param)
        found == SelectSeq(param_args(param), IsEnumClass)
    IN IF is_annotated(param) /\ found # <<>>
       THEN PyList([i \in 1 .. Len(found[Len(found)].members) |->
                       PyStr(found[Len(found)].members[i])])
       ELSE IF GetOrigin(T) = "Literal" THEN PyList(T.values)
       ELSE PyNone

\* enum_: the member names of the first enum class among the arguments,
\* else the values of a Literal T, else None
EnumSource(param) ==
    LET T == EffectiveType(param)
        found == SelectSeq(param_args(param), IsEnumClass)
    IN IF is_annotated(param) /\ found # <<>>
       THEN PyList([i \in 1 .. Len(found[1].members) |-> PyStr(found[1].members[i])])
       ELSE IF GetOrigin(T) = "Literal" THEN PyList(T.values)
       ELSE PyNone

\* the list of line 160 without its filter
EnumList_KeepNone(enum_) == PyList(enum_.items)

\* [t for t in enum_ if t is not None]
EnumList(enum_) == PyList(SelectSeq(enum_.items, LAMBDA t : t # PyNone))

\* the property with a default of None left out, as a test of the default's
\* truthiness would build it
Property_DropNoneDefault(param) ==
    LET type == guess_type(EffectiveType(param))
        base == [type |-> type, description |-> Description(param)]
        withEnum == IF EnumSource(param) # PyNone
                    THEN base @@ [enum |-> EnumList(EnumSource(param))]
                    ELSE base
    IN IF param.default # Empty /\ param.default # PyNone
       THEN withEnum @@ [default |-> param.default]
       ELSE withEnum

\* schema["properties"][name] as lines 154-163 build it once guess_type has
\* returned
Property(param) ==
    LET type == guess_type(EffectiveType(param))
        base == [type |-> type, description |-> Description(param)]
        withEnum == IF EnumSource(param) # PyNone
                    THEN base @@ [enum |-> EnumList(EnumSource(param))]
                    ELSE base
    IN IF param.default # Empty
       THEN withEnum @@ [default |-> param.default]
       ELSE withEnum

\* the rule of lines 165-170 without its test for Literal
GeneralRule_LiteralToo(param) ==
    LET T == EffectiveType(param)
    IN IF IsInstanceNone(T) = "raise" THEN "raise"
       ELSE IF IsInstanceNone(T) = "False" /\ param.default = Empty THEN "append"
       ELSE "skip"

\* lines 165-170: the rule for a T that is no Literal.  "raise" stands for
\* the TypeError of isinstance(None, T), which is evaluated before the
\* default is looked at.
GeneralRule(param) ==
    LET T == EffectiveType(param)
    IN IF GetOrigin(T) = "Literal" THEN "skip"
       ELSE IF IsInstanceNone(T) = "raise" THEN "raise"
       ELSE IF IsInstanceNone(T) = "False" /\ param.default = Empty THEN "append"
       ELSE "skip"

\* lines 172-174: the rule for a Literal T, all(typing.get_args(T))
LiteralRule(param) ==
    LET T == EffectiveType(param)
    IN IF GetOrigin(T) = "Literal" /\ \A i \in DOMAIN T.values : Truthy(T.values[i])
       THEN "append" ELSE "skip"

\* what one turn of the loop appends to schema["required"]
Appended(param) ==
    (IF GeneralRule(param) = "append" THEN <<param.name>> ELSE <<>>)
    \o (IF LiteralRule(param) = "append" THEN <<param.name>> ELSE <<>>)

\* a turn of the loop raises when guess_type (line 155) or isinstance (line
\* 167) does
ParamRaises(param) ==
    Raised(guess_type(EffectiveType(param))) \/ GeneralRule(param) = "raise"

\* the names in reverse of the signature's order
Names_Reversed(params) ==
    [i \in DOMAIN params |-> params[Len(params) + 1 - i].name]

\* the keys params.items() yields, in the order of the signature
Names(params) == [i \in DOMAIN params |-> params[i].name]

\* "input_schema" for every format but "openai"
ParmsKey_ClaudeDefault(format) ==
    IF format = PyStr("openai") THEN "parameters" ELSE "input_schema"

\* parms_key = "input_schema" if format == "claude" else "parameters"
ParmsKey(format) ==
    IF format = PyStr("claude") THEN "input_schema" ELSE "parameters"

RECURSIVE Flatten(_)
Flatten(ss) == IF ss = <<>> THEN <<>> ELSE ss[1] \o Flatten(Tail(ss))

\* the return value of get_function_schema(func, format), or TypeError when
\* a turn of the loop raises
get_function_schema(func, format) ==
    LET params == func.params
        required == Flatten([i \in DOMAIN params |-> Appended(params[i])])
    IN IF \E i \in DOMAIN params : ParamRaises(params[i]) THEN TypeError
       ELSE [kind |-> "dict",
             name |-> func.name,
             description |-> func.doc,
             parms_key |-> ParmsKey(format),
             order |-> Names(params),
             properties |-> [n \in Range(Names(params)) |->
                               Property(CHOOSE p \in Range(params) : p.name = n)],
             required |-> ListOfSet(required)]

----------------------------------------------------------------------------
(* The inputs *)

Seeds == 0 .. NumSeeds - 1

\* the sequences of 1 .. n distinct elements of S
RECURSIVE DistinctSeqs(_, _)
DistinctSeqs(S, n) ==
    IF n = 0 THEN {<<>>}
    ELSE LET shorter == DistinctSeqs(S, n - 1)
         IN shorter \cup {Append(s, x) : s \in shorter, x \in S}

Injective(s) == \A i, j \in DOMAIN s : i # j => s[i] # s[j]

SeqsOf(S, lo, hi) ==
    {s \in DistinctSeqs(S, hi) : Len(s) >= lo /\ Injective(s)}

Classes ==
    {Builtin(n) : n \in {"str", "int", "float", "bool", "list", "dict", "tuple",
                         "bytes", "NoneType", "object"}}
    \cup {Class("_empty", "object"), Class("Custom", "object"),
          Class("MyStr", "str"), Class("MyInt", "int"), Class("MyFloat", "float"),
          Class("MyList", "list"), Class("MyDict", "dict"), Color}

Generics ==
    {Generic(o, p) : o \in {"list", "tuple", "dict", "Sequence", "Mapping"},
                     p \in BOOLEAN}

LiteralValues ==
    {PyStr("a"), PyStr("b"), PyStr(""), Value("int", "1"), Value("int", "0"),
     Value("float", "1.0"), Value("bool", "True"), Value("bool", "False"),
     Value("bytes", "b'x'"), Value("Color", "RED"), PyNone}

Literals == {Literal(vs) : vs \in SeqsOf(LiteralValues, 1, MaxLiteralLen)}

UnionMembers ==
    {Builtin("str"), Builtin("int"), Builtin("float"), Builtin("bool"),
     NoneType, Class("Custom", "object"), TypingAny, Generic("list", TRUE),
     Literal(<<PyStr("a"), Value("int", "1")>>)}

Unions == {Union(ts) : ts \in SeqsOf(UnionMembers, 2, MaxUnionLen)}

\* PyNone is the annotation None, which is a value and no type
PlainTypes == Classes \cup Generics \cup Literals \cup Unions \cup {TypingAny, PyNone}

Optional(t) == Union(<<t, NoneType>>)

TypeExprs ==
    PlainTypes
    \cup {Annotated(t, <<PyStr("text")>>) : t \in Classes \cup Generics}
    \cup {Optional(Annotated(t, <<PyStr("text")>>)) : t \in Classes \cup Generics}
    \cup {Optional(t) : t \in (Classes \ {NoneType}) \cup Generics}

\* field.py: a FieldInfo is the dataclass of lines 39-50, every attribute
\* None unless the constructor sets it
F ==
    [type |-> PyNone, description |-> PyNone, enum |-> PyNone,
     required |-> PyNone, minimum |-> PyNone, maximum |-> PyNone,
     exclusive_minimum |-> PyNone, exclusive_maximum |-> PyNone,
     max_length |-> PyNone, min_length |-> PyNone, pattern |-> PyNone]

FieldInfo(set) == [kind |-> "FieldInfo", attrs |-> set @@ F]

\* the key to_dict writes an attribute under
JsonKey ==
    [type |-> "type", description |-> "description", enum |-> "enum",
     required |-> "required", minimum |-> "minimum", maximum |-> "maximum",
     exclusive_minimum |-> "exclusiveMinimum",
     exclusive_maximum |-> "exclusiveMaximum",
     max_length |-> "maxLength", min_length |-> "minLength",
     pattern |-> "pattern"]

\* FieldInfo.to_dict(): the attributes that are not None under their keys
to_dict(self) ==
    LET set == {a \in DOMAIN self.attrs : self.attrs[a] # PyNone}
    IN [k \in {JsonKey[a] : a \in set} |->
           self.attrs[CHOOSE a \in set : JsonKey[a] = k]]

\* a dict given as a metadata item, {"minimum": 10}
RawDict(items) == [kind |-> "dict", items |-> items]

\* what evaluating an expression leaves: the FieldInfo objects by name, and
\* the value of the expression
Eval(fs, value) == [fields |-> fs, value |-> value]

\* the FieldInfo object `id`, by reference
Self(id) == [kind |-> "ref", id |-> id]

\* self >= value, and value <= self, which int hands over to it
__ge__(fs, self, value) == Eval([fs EXCEPT ![self].minimum = value], Self(self))

\* self > value, and value < self
__gt__(fs, self, value) ==
    Eval([fs EXCEPT ![self].exclusive_minimum = value], Self(self))

\* self <= value, and value >= self
__le__(fs, self, value) == Eval([fs EXCEPT ![self].maximum = value], Self(self))

\* __lt__ writing the inclusive bound
__lt___Inclusive(fs, self, value) ==
    Eval([fs EXCEPT ![self].maximum = value], Self(self))

\* self < value, and value > self
__lt__(fs, self, value) ==
    Eval([fs EXCEPT ![self].exclusive_maximum = value], Self(self))

\* __rlshift__ answering with a changed copy and leaving self as it was
__rlshift___Copy(fs, self, value) ==
    Eval(("copy" :> [fs[self] EXCEPT !.minimum = value]) @@ fs, Self("copy"))

\* value << self
__rlshift__(fs, self, value) ==
    Eval([fs EXCEPT ![self].minimum = value], Self(self))

\* FieldInfo(description=d): a new object
NewFieldInfo(fs, id, set) == Eval((id :> (set @@ F)) @@ fs, Self(id))

\* bool(obj) of a FieldInfo: the dataclass defines neither __bool__ nor
\* __len__
FieldTruthy(obj) == TRUE

\* a <= f < b with f evaluated once: (a <= f) and (f < b)
ChainGeLt(fs, a, self, b) ==
    LET first == __ge__(fs, self, a)
    IN IF FieldTruthy(first.value) THEN __lt__(first.fields, self, b) ELSE first

\* a <= f <= b
ChainGeLe(fs, a, self, b) ==
    LET first == __ge__(fs, self, a)
    IN IF FieldTruthy(first.value) THEN __le__(first.fields, self, b) ELSE first

\* the effective types of the parameters
ParamLiterals ==
    {Literal(vs) :
        vs \in SeqsOf({PyStr("a"), PyStr("b"), PyStr(""), Value("int", "0"), PyNone},
                      1, MaxLiteralLen)}

ParamTypes ==
    {Builtin(n) : n \in {"str", "int", "float", "bool", "list", "dict",
                         "NoneType", "object"}}
    \cup {Class("_empty", "object"), Class("Custom", "object"), Color,
          TypingAny, PyNone,
          Generic("list", FALSE), Generic("list", TRUE), Generic("dict", TRUE),
          Generic("Sequence", FALSE),
          Optional(Builtin("int")), Optional(Builtin("str")),
          Optional(Class("Custom", "object")), Optional(TypingAny),
          Optional(Generic("list", TRUE)),
          Union(<<NoneType, Generic("list", TRUE)>>),
          Union(<<Builtin("int"), Builtin("str")>>),
          Union(<<Builtin("int"), Builtin("float")>>),
          Union(<<Builtin("str"), Builtin("float"), Builtin("bool")>>),
          Literal(<<Value("bool", "False")>>),
          Literal(<<PyStr("a"), PyStr("b"), PyStr("c")>>)}
    \cup ParamLiterals

Animal == EnumClass("Animal", <<"Cat", "Dog">>)

\* the metadata an Annotated parameter carries
Metas == {<<PyStr("text")>>, <<PyStr("text"), Animal>>}

\* Doc(documentation), the PEP 727 object
Doc(text) == Value("Doc", text)

Candidates == EnumClass("Candidates", <<"a", "b", "c">>)

\* the metadata that holds Doc objects, enum classes at several places,
\* FieldInfo objects and raw dicts
MoreMetas ==
    {<<Doc("doc")>>,
     <<PyStr("text"), Doc("doc")>>,
     <<Doc("doc"), PyStr("text")>>,
     <<Doc("doc"), Doc("other")>>,
     <<Animal, PyStr("text")>>,
     <<Animal, Candidates>>,
     <<Candidates, Doc("doc")>>,
     <<FieldInfo([type |-> PyStr("integer")])>>,
     <<FieldInfo([description |-> PyStr("field")])>>,
     <<FieldInfo([enum |-> PyList(<<PyStr("x"), PyStr("y")>>)])>>,
     <<FieldInfo([minimum |-> Value("int", "1"), maximum |-> Value("int", "100")])>>,
     <<FieldInfo([required |-> Value("bool", "True")])>>,
     <<FieldInfo([minimum |-> Value("int", "1"), maximum |-> Value("int", "100")]),
       FieldInfo([pattern |-> PyStr("^[a-z]+$")])>>,
     <<FieldInfo([minimum |-> Value("int", "1")]), RawDict([minimum |-> Value("int", "10")])>>,
     <<RawDict([minimum |-> Value("int", "10")])>>}

\* the effective types that metadata stands beside
MetaTypes ==
    {Builtin("int"), Builtin("str"), Optional(Builtin("int")), Color,
     Literal(<<PyStr("a"), PyNone>>)}

Annotations ==
    ParamTypes
    \cup {Annotated(t, m) : t \in ParamTypes \ {Class("_empty", "object")},
                            m \in Metas}
    \cup {Annotated(t, m) : t \in MetaTypes, m \in MoreMetas}

Defaults == {Empty, PyNone, PyStr("a")}

ParamNames == <<"a", "b", "c", "d">>

\* the parameters every position of a signature is drawn from, and the few
\* that stand beside them in a longer signature
RichParams(n) == {Param(n, a, d) : a \in Annotations, d \in Defaults}

CommonAnnotations == {Builtin("int"), Optional(Builtin("str"))}

\* the annotations of the parameter that varies in a signature of several
\* parameters
FewAnnotations ==
    MetaTypes \cup CommonAnnotations \cup {TypingAny}
    \cup {Annotated(Builtin("int"), m) : m \in Metas}

FewParams(n) == {Param(n, a, d) : a \in FewAnnotations, d \in Defaults}

\* the signatures of n parameters: the k-th is any of RichParams when it
\* stands alone and any of FewParams else, the others are plain ones without
\* a default
SignaturesAt(n, k) ==
    {[i \in 1 .. n |->
        IF i = k THEN r ELSE Param(ParamNames[i], c[i], Empty)] :
            r \in IF n = 1 THEN RichParams(ParamNames[k]) ELSE FewParams(ParamNames[k]),
            c \in [1 .. n -> CommonAnnotations]}

\* a parameter without a default does not follow one with a default
DefaultsLast(ps) ==
    \A i, j \in DOMAIN ps : i < j /\ ps[i].default # Empty => ps[j].default # Empty

ParamLists ==
    {<<>>} \cup
    UNION {UNION {{ps \in SignaturesAt(n, k) : DefaultsLast(ps)} : k \in 1 .. n} :
              n \in 1 .. MaxParams}

Funcs == {[name |-> "func1", doc |-> PyStr("My function"), params |-> ps] : ps \in ParamLists}

\* the two formats, an unrecognised string and None
Formats == {PyStr("openai"), PyStr("claude"), PyStr("other"), PyNone}

----------------------------------------------------------------------------
(* cli.py *)

\* the names the members of a module have, in the order str compares them
\* ("G" < "_" < "a")
NameOrder == <<"Get", "__builtins__", "add", "get", "put">>

Rank(name) == CHOOSE i \in DOMAIN NameOrder : NameOrder[i] = name

\* name >= other, of two str
NameGE(name, other) == Rank(name) >= Rank(other)

\* inspect.getmembers(module): the members sorted by name; every module
\* holds __builtins__ beside what the file defines
getmembers(defined) ==
    SelectSeq(NameOrder, LAMBDA n : n \in defined \cup {"__builtins__"})

\* the member of that name: __builtins__ is a dict, the others are functions
\* def name(a: int)
MemberObject(name) ==
    IF name = "__builtins__" THEN EmptyDict
    ELSE [name |-> name, doc |-> PyStr("My function"),
          params |-> <<Param("a", Builtin("int"), Empty)>>]

\* what the process leaves: its exit status, what it printed, and whether
\* the warning about the format went to stderr
Exit(status, stdout, warned) ==
    [kind |-> "exit", status |-> status, stdout |-> stdout, warned |-> warned]

Usage == [kind |-> "usage"]
NotFound(name, file_path) == [kind |-> "not_found", name |-> name, file_path |-> file_path]

\* main() with sys.argv[1:] = args.  An IndexError ends in print_usage and
\* exit status 1; the TypeError inspect.signature raises for a member that is
\* no callable is not caught and leaves main.
main(args, defined) ==
    IF Len(args) < 1 THEN Exit(1, Usage, FALSE)
    ELSE
      LET file_path == args[1]
          members == getmembers(defined)
          format == IF Len(args) >= 3 THEN PyStr(args[3]) ELSE PyStr("openai")
          warned == format \notin {PyStr("openai"), PyStr("claude")}
      IN IF Len(args) < 2 THEN Exit(1, Usage, warned)
         ELSE
           LET hits == SelectSeq(members, LAMBDA name : NameGE(name, args[2]))
               func == MemberObject(hits[1])
           IN IF hits = <<>> THEN Exit(0, NotFound(args[2], file_path), warned)
              ELSE IF func = EmptyDict THEN TypeError
              ELSE IF Raised(get_function_schema(func, format)) THEN TypeError
              ELSE Exit(0, get_function_schema(func, format), warned)

----------------------------------------------------------------------------
(* The calls *)

NoCall == [op |-> "none"]
NoResult == [kind |-> "none"]

\* a reference to the object `id` of the heap
Ref(id) == [kind |-> "ref", id |-> id]

\* the object the call `k` allocates for `part` of its result; the call 0
\* stands for the def statement, which evaluates the defaults once
Obj(k, part) == [call |-> k, part |-> part]

\* def func1(a: Literal["a", "b"], b: list = []): the list is one object,
\* made when the def statement runs
MutableFunc ==
    [name |-> "func1", doc |-> PyStr("My function"),
     params |-> <<Param("a", Literal(<<PyStr("a"), PyStr("b")>>), Empty),
                  Param("b", Builtin("list"), Ref(Obj(0, "default")))>>]

\* the heap once the def statement has run
DeclaredHeap == Obj(0, "default") :> <<>>

\* field.py once imported: F = FieldInfo() is the one object of line 89
ImportedFields == "F" :> F

NoExpr == [op |-> "none"]

Idle ==
    /\ call = NoCall
    /\ ret = NoResult

NoFieldUse ==
    /\ fields = ImportedFields
    /\ expr = NoExpr

Init ==
    /\ hashseed \in Seeds
    /\ Idle
    /\ heap = DeclaredHeap
    /\ results = <<>>
    /\ NoFieldUse

\* guess_type(T) is called on some type expression and returns or raises
GuessType ==
    /\ call = NoCall
    /\ \E T \in TypeExprs :
          /\ call' = [op |-> "guess_type", T |-> T]
          /\ ret' = guess_type(T)
    /\ UNCHANGED <<hashseed, heap, results, fields, expr>>

\* get_function_schema(func, format) is called and returns or raises
GetFunctionSchema ==
    /\ call = NoCall
    /\ \E func \in Funcs, format \in Formats :
          /\ call' = [op |-> "get_function_schema", func |-> func, format |-> format]
          /\ ret' = get_function_schema(func, format)
    /\ UNCHANGED <<hashseed, heap, results, fields, expr>>

\* the command lines: a file path, then a function name, then a format
ArgLists ==
    {<<>>, <<"mod.py">>}
    \cup {<<"mod.py", n>> : n \in Range(NameOrder)}
    \cup {<<"mod.py", n, f>> : n \in Range(NameOrder), f \in {"claude", "other"}}

\* the functions the file may define
FunctionNames == Range(NameOrder) \ {"__builtins__"}

\* python -m function_schema.cli args, on a file that defines `defined`
Main ==
    /\ call = NoCall
    /\ \E args \in ArgLists, defined \in SUBSET FunctionNames :
          /\ call' = [op |-> "main", args |-> args, defined |-> defined]
          /\ ret' = main(args, defined)
    /\ UNCHANGED <<hashseed, heap, results, fields, expr>>

Next ==
    \/ GuessType
    \/ GetFunctionSchema
    \/ Main

Spec == Init /\ [][Next]_vars

----------------------------------------------------------------------------
(* The results of several calls in one heap *)

\* get_function_schema(func1) returns: the `enum` list of line 160 and the
\* `required` list of line 178 are new objects, `default` is the object
\* line 163 stores, the one the signature holds
CallAndKeep ==
    /\ Len(results) < MaxCalls
    /\ LET k == Len(results) + 1
           schema == get_function_schema(MutableFunc, PyStr("openai"))
       IN /\ results' = Append(results,
                  [enum |-> Ref(Obj(k, "enum")),
                   required |-> Ref(Obj(k, "required")),
                   default |-> schema.properties["b"].default])
          /\ heap' = heap @@ (Obj(k, "enum") :> schema.properties["a"].enum.items)
                           @@ (Obj(k, "required") :>
                                  [i \in DOMAIN schema.required |->
                                      PyStr(schema.required[i])])
    /\ UNCHANGED <<hashseed, call, ret, fields, expr>>

Appended_New == PyStr("new")

\* the caller appends to a list it reached through a returned schema
MutateResult ==
    /\ \E i \in DOMAIN results, part \in {"enum", "required", "default"} :
          LET obj == results[i][part].id
          IN /\ Len(SelectSeq(heap[obj], LAMBDA v : v = Appended_New)) < MaxAppends
             /\ heap' = [heap EXCEPT ![obj] = Append(@, Appended_New)]
    /\ UNCHANGED <<hashseed, call, ret, results, fields, expr>>

HeapInit ==
    /\ hashseed = 0
    /\ Idle
    /\ heap = DeclaredHeap
    /\ results = <<>>
    /\ NoFieldUse

HeapNext ==
    \/ CallAndKeep
    \/ MutateResult

HeapSpec == HeapInit /\ [][HeapNext]_vars

----------------------------------------------------------------------------
(* Expressions over FieldInfo objects *)

\* the numbers the bounds are given as
Numbers == {Value("int", "0"), Value("int", "1")}

Operators == {"__ge__", "__gt__", "__le__", "__lt__", "__rlshift__"}

\* the operator `op` applied to self and value
Apply(op, fs, self, value) ==
    CASE op = "__ge__" -> __ge__(fs, self, value)
      [] op = "__gt__" -> __gt__(fs, self, value)
      [] op = "__le__" -> __le__(fs, self, value)
      [] op = "__lt__" -> __lt__(fs, self, value)
      [] op = "__rlshift__" -> __rlshift__(fs, self, value)

\* one comparison or shift on the shared object: F >= v, v <= F, ...
Compare ==
    /\ \E op \in Operators, self \in {"F"}, value \in Numbers :
          LET after == Apply(op, fields, self, value)
          IN /\ fields' = after.fields
             /\ expr' = [op |-> op, self |-> self, value |-> value,
                         result |-> after.value]
    /\ UNCHANGED <<hashseed, call, ret, heap, results>>

\* a <= F < b on the shared object of the module
ChainOnShared ==
    /\ \E a \in Numbers, b \in Numbers :
          LET after == ChainGeLt(fields, a, "F", b)
          IN /\ fields' = after.fields
             /\ expr' = [op |-> "a <= F < b", self |-> "F", a |-> a, b |-> b,
                         result |-> after.value]
    /\ UNCHANGED <<hashseed, call, ret, heap, results>>

\* a <= FieldInfo(description=d) <= b
ChainOnNew ==
    /\ \E a \in Numbers, b \in Numbers :
          LET made == NewFieldInfo(fields, "new", [description |-> PyStr("The number")])
              after == ChainGeLe(made.fields, a, made.value.id, b)
          IN /\ fields' = after.fields
             /\ expr' = [op |-> "a <= FieldInfo(description=d) <= b",
                         self |-> "new", a |-> a, b |-> b,
                         result |-> after.value]
    /\ UNCHANGED <<hashseed, call, ret, heap, results>>

FieldInit ==
    /\ hashseed = 0
    /\ Idle
    /\ heap = DeclaredHeap
    /\ results = <<>>
    /\ NoFieldUse

FieldNext ==
    \/ Compare
    \/ ChainOnShared
    \/ ChainOnNew

FieldSpec == FieldInit /\ [][FieldNext]_vars

----------------------------------------------------------------------------
(* The claims *)

SchemaCall == call.op = "get_function_schema"
GuessCall == call.op = "guess_type"
Returned == ret.kind = "dict"

\* the parameters of the function the schema was asked for
CallParams == Range(call.func.params)

\* None is a legal value of T, read off the type expression alone
RECURSIVE AcceptsNone(_)
AcceptsNone(T) ==
    CASE T.kind = "class" -> T \in {NoneType, Builtin("object")}
      [] T.kind = "Any" -> TRUE
      [] T.kind = "value" -> T = PyNone
      [] T.kind = "Union" -> \E i \in DOMAIN T.types : AcceptsNone(T.types[i])
      [] T.kind = "Literal" -> PyNone \in Range(T.values)
      [] T.kind = "Annotated" -> AcceptsNone(T.typ)
      [] OTHER -> FALSE

IsLiteral(T) == T.kind = "Literal"

\* C1: a parameter is in `required` if and only if its effective type T is
\* no Literal, does not accept None and the parameter has no default, or T is
\* a Literal none of whose values is None (0, False and "" are not None).
C1_RequiredIff ==
    (SchemaCall /\ Returned) =>
        \A p \in CallParams :
            LET T == EffectiveType(p)
            IN p.name \in Range(ret.required) <=>
                  \/ ~ IsLiteral(T) /\ ~ AcceptsNone(T) /\ p.default = Empty
                  \/ IsLiteral(T) /\ PyNone \notin Range(T.values)

\* C2: a parameter that declares a default value is never in `required`,
\* whatever its type is.
C2_DefaultNeverRequired ==
    (SchemaCall /\ Returned) =>
        \A p \in CallParams :
            p.default # Empty => p.name \notin Range(ret.required)

\* C3: when guess_type yields no token for the effective type of a
\* parameter, its property is emitted with a description and has no `type`
\* key at all.
C3_NoTypeKey ==
    (SchemaCall /\ Returned) =>
        \A p \in CallParams :
            guess_type(EffectiveType(p)) = PyNone =>
                /\ "description" \in DOMAIN ret.properties[p.name]
                /\ "type" \notin DOMAIN ret.properties[p.name]

\* C4: get_function_schema returns a schema and does not raise, for every
\* function whose parameters carry any finite type expression.
C4_SchemaNeverRaises == SchemaCall => Returned

\* C5: guess_type returns a token, a list of tokens, {} or None and does not
\* raise, for every finite type expression.
C5_GuessNeverRaises ==
    GuessCall =>
        \/ ret \in {PyNone, EmptyDict}
        \/ ret.kind = "value" /\ ret.cls = "str"
        \/ ret.kind = "list"

\* T with the None member of the union removed: the T of Optional[T]
WithoutNone(U) == MakeUnion(SelectSeq(U.types, LAMBDA t : t # NoneType))

IsOptional(T) == T.kind = "Union" /\ NoneType \in Range(T.types)

\* C6: guess_type(Optional[T]) and guess_type(Union[T, None]) return exactly
\* what guess_type(T) returns, for every T, an unrecognised T included.
C6_OptionalSameAsBase ==
    (GuessCall /\ IsOptional(call.T) /\ ~ Raised(ret)) =>
        ret = guess_type(WithoutNone(call.T))

\* the results of classifying the members of a union that are not None
MemberResults(U) ==
    LET members == SelectSeq(U.types, LAMBDA t : t # NoneType)
    IN [i \in DOMAIN members |-> guess_type(members[i])]

\* the tokens of the members, one per member that has one, in member order
MemberTokens(U) == SelectSeq(MemberResults(U), LAMBDA r : r # PyNone)

AllTokensOrNone(U) ==
    \A i \in DOMAIN MemberResults(U) : MemberResults(U)[i].kind = "value"

\* C7: for a union, guess_type returns the single token unwrapped when the
\* members have exactly one distinct token, and otherwise the list of the
\* distinct tokens in the order they are first seen among the members.
C7_UnionFirstSeenOrder ==
    (GuessCall /\ call.T.kind = "Union" /\ AllTokensOrNone(call.T)) =>
        LET tokens == Dedupe(MemberTokens(call.T))
        IN ret = IF Len(tokens) = 1 THEN tokens[1] ELSE PyList(tokens)

TokenOfBase ==
    [str |-> "string", int |-> "number", float |-> "number", bool |-> "boolean",
     list |-> "array", dict |-> "object"]

\* C8: for str, int, float, bool, list, dict and every subclass of them,
\* guess_type returns the one token of that built-in class; a boolean class
\* gives boolean, never number.
C8_ClassTokens ==
    (GuessCall /\ call.T.kind = "class" /\ call.T.base \in DOMAIN TokenOfBase) =>
        ret = PyStr(TokenOfBase[call.T.base])

NotNone(vs) == SelectSeq(vs, LAMBDA v : v # PyNone)

\* C9: guess_type of a Literal is the classification of the union of the
\* runtime types of its values: only strings give "string", an int and a
\* float together contribute the one token number, and None values do not
\* change the result.
C9_LiteralClassification ==
    (GuessCall /\ IsLiteral(call.T)) =>
        LET vs == call.T.values
            classes == {vs[i].cls : i \in DOMAIN vs}
        IN /\ classes = {"str"} => ret = PyStr("string")
           /\ classes \in {{"int"}, {"float"}, {"int", "float"}} => ret = PyStr("number")
           /\ NotNone(vs) # <<>> => ret = guess_type(Literal(NotNone(vs)))

HasEnumClass(p) == \E i \in DOMAIN param_args(p) : IsEnumClass(param_args(p)[i])

\* C10: for a parameter whose effective type is a Literal, bare or inside
\* Annotated, and whose metadata holds no enum class, `enum` is the list of
\* the literal values in declared order without the None entries.
C10_LiteralEnum ==
    (SchemaCall /\ Returned) =>
        \A p \in CallParams :
            (IsLiteral(EffectiveType(p)) /\ ~ HasEnumClass(p)) =>
                /\ "enum" \in DOMAIN ret.properties[p.name]
                /\ ret.properties[p.name]["enum"]
                      = PyList(NotNone(EffectiveType(p).values))

\* C10 happens: an Annotated parameter Literal["a", None] came back with enum
C10_Witness ==
    /\ SchemaCall /\ Returned
    /\ \E p \in CallParams :
          /\ is_annotated(p)
          /\ EffectiveType(p) = Literal(<<PyStr("a"), PyNone>>)
          /\ ~ HasEnumClass(p)
          /\ ret.properties[p.name]["enum"] = PyList(<<PyStr("a")>>)

IsDoc(arg) == arg.kind = "value" /\ arg.cls = "Doc"
IsStr(arg) == arg.kind = "value" /\ arg.cls = "str"
IsFieldInfo(arg) == arg.kind = "FieldInfo"
IsRawDict(arg) == arg.kind = "dict"
IsFieldItem(arg) == IsFieldInfo(arg) \/ IsRawDict(arg)

\* the metadata items of a parameter, none for a bare annotation
MetaOf(p) == IF is_annotated(p) THEN p.annotation.meta ELSE <<>>

HasFieldItems(p) == SelectSeq(MetaOf(p), IsFieldItem) # <<>>

\* the description the metadata asks for: the first Doc, else the first
\* plain string, else the synthesized text
DocFirstDescription(p) ==
    LET docs == SelectSeq(MetaOf(p), IsDoc)
        strs == SelectSeq(MetaOf(p), IsStr)
    IN IF docs # <<>> THEN PyStr(docs[1].val)
       ELSE IF strs # <<>> THEN strs[1]
       ELSE SynthDescription(p.name)

\* C11: the description of an Annotated parameter is the text of the first
\* Doc in its metadata if there is one, even behind a plain string, else the
\* first plain string, else "The {name} parameter"; a bare parameter always
\* gets the synthesized text.
C11_DocPreferred ==
    (SchemaCall /\ Returned) =>
        \A p \in CallParams :
            ~ HasFieldItems(p) =>
                ret.properties[p.name].description = DocFirstDescription(p)

MemberNames(cls) == PyList([i \in 1 .. Len(cls.members) |-> PyStr(cls.members[i])])

MetaEnums(p) == SelectSeq(MetaOf(p), IsEnumClass)

\* C12 as stated: when the metadata of an Annotated parameter holds enum
\* classes, `enum` is the member names of the first of them in metadata
\* order, whatever the base type is.
C12_FirstMetaEnum ==
    (SchemaCall /\ Returned) =>
        \A p \in CallParams :
            (MetaEnums(p) # <<>> /\ ~ HasFieldItems(p)) =>
                /\ "enum" \in DOMAIN ret.properties[p.name]
                /\ ret.properties[p.name].enum = MemberNames(MetaEnums(p)[1])

\* C12 amended: when the metadata of an Annotated parameter holds enum
\* classes, `enum` is the member names, in declaration order, of the first
\* enum class among the arguments of Annotated, the base type counted as the
\* first of them: a base type that is an enum class wins, else the first
\* enum class of the metadata wherever it stands; later enum classes and the
\* values of a Literal base type are ignored.
C12_FirstArgEnum ==
    (SchemaCall /\ Returned) =>
        \A p \in CallParams :
            (MetaEnums(p) # <<>> /\ ~ HasFieldItems(p)) =>
                /\ "enum" \in DOMAIN ret.properties[p.name]
                /\ ret.properties[p.name].enum =
                      IF IsEnumClass(EffectiveType(p))
                      THEN MemberNames(EffectiveType(p))
                      ELSE MemberNames(MetaEnums(p)[1])

\* a Literal parameter with two enum classes in its metadata got the names
\* of the first
C12_Witness ==
    /\ SchemaCall /\ Returned
    /\ \E p \in CallParams :
          /\ IsLiteral(EffectiveType(p))
          /\ MetaOf(p) = <<Animal, Candidates>>
          /\ ret.properties[p.name].enum = PyList(<<PyStr("Cat"), PyStr("Dog")>>)

FieldItems(p) == SelectSeq(MetaOf(p), IsFieldItem)

\* the keys a FieldInfo or a raw dict sets, with their values
ItemDict(item) == IF IsFieldInfo(item) THEN to_dict(item) ELSE item.items

\* the items merged in order, a later one overriding the keys it sets
RECURSIVE MergedItems(_)
MergedItems(items) ==
    IF Len(items) = 1 THEN ItemDict(items[1])
    ELSE ItemDict(items[Len(items)]) @@ MergedItems(SubSeq(items, 1, Len(items) - 1))

\* the keys of a property schema that a field item may set
PropertyKeys ==
    {"type", "description", "enum", "minimum", "maximum", "exclusiveMinimum",
     "exclusiveMaximum", "minLength", "maxLength", "pattern"}

\* every key the items set stands in the property with the merged value
CarriesItems(prop, items) ==
    \A k \in DOMAIN MergedItems(items) \cap PropertyKeys :
        k \in DOMAIN prop /\ prop[k] = MergedItems(items)[k]

\* C13: for an Annotated parameter carrying one FieldInfo, every field the
\* FieldInfo sets stands in the property schema under its JSON Schema key,
\* and a set type, description or enum replaces the inferred one.
C13_FieldInfoMerged ==
    (SchemaCall /\ Returned) =>
        \A p \in CallParams :
            (Len(FieldItems(p)) = 1 /\ IsFieldInfo(FieldItems(p)[1])) =>
                CarriesItems(ret.properties[p.name], FieldItems(p))

\* C14: several FieldInfo objects and raw dicts in the metadata are merged
\* into the property schema in metadata order: a key set by one item is
\* present, a key set by several holds the value of the last, and a raw dict
\* is merged like a FieldInfo.
C14_ItemsMergedInOrder ==
    (SchemaCall /\ Returned) =>
        \A p \in CallParams :
            (Len(FieldItems(p)) > 1 \/ \E i \in DOMAIN FieldItems(p) : IsRawDict(FieldItems(p)[i])) =>
                CarriesItems(ret.properties[p.name], FieldItems(p))

\* C15: a parameter whose metadata holds FieldInfo(required=True) is in
\* `required`, a nullable type notwithstanding.
C15_FieldInfoRequired ==
    (SchemaCall /\ Returned) =>
        \A p \in CallParams :
            (\E i \in DOMAIN FieldItems(p) :
                /\ IsFieldInfo(FieldItems(p)[i])
                /\ FieldItems(p)[i].attrs.required = Value("bool", "True")) =>
                    p.name \in Range(ret.required)

\* C16: the object schema stands under `input_schema` for the format
\* "claude" and under `parameters` for "openai" and for every other format
\* value (an unrecognised string, None); the format changes nothing else of
\* the schema (name, description and the object schema are those of the
\* "openai" call) and never makes the call raise.
C16_FormatKey ==
    SchemaCall =>
        LET openai == get_function_schema(call.func, PyStr("openai"))
        IN /\ Raised(ret) <=> Raised(openai)
           /\ Returned =>
                 /\ ret.parms_key = IF call.format = PyStr("claude")
                                     THEN "input_schema" ELSE "parameters"
                 /\ [ret EXCEPT !.parms_key = "parameters"] = openai

\* a call with the format None returned a schema under `parameters` for a
\* function with parameters
C16_Witness ==
    /\ SchemaCall /\ Returned
    /\ call.format = PyNone
    /\ call.func.params # <<>>
    /\ ret.parms_key = "parameters"

\* C18: `properties` has exactly one entry per parameter of the signature,
\* keyed by the parameter's name, and the entries stand in the order the
\* parameters are declared in; a function without parameters gives empty
\* `properties` and empty `required`.
C18_OnePropertyPerParam ==
    (SchemaCall /\ Returned) =>
        LET params == call.func.params
        IN /\ Len(ret.order) = Len(params)
           /\ \A i \in DOMAIN params : ret.order[i] = params[i].name
           /\ DOMAIN ret.properties = {params[i].name : i \in DOMAIN params}
           /\ params = <<>> => (ret.order = <<>> /\ ret.required = <<>>)

\* a schema came back for a function of two parameters
C18_Witness ==
    /\ SchemaCall /\ Returned
    /\ Len(call.func.params) = 2
    /\ ret.order = <<"a", "b">>
    /\ DOMAIN ret.properties = {"a", "b"}

\* description, and default exactly when one is declared, with its value
DescriptionAndDefault(prop, p) ==
    /\ "description" \in DOMAIN prop
    /\ "default" \in DOMAIN prop <=> p.default # Empty
    /\ p.default # Empty => prop.default = p.default

ListLike(T) ==
    \/ T \in {Builtin("list"), Builtin("tuple")}
    \/ T.kind = "generic" /\ T.origin \in {"list", "tuple", "Sequence"}

\* dict, typing.Dict, typing.Mapping, bare or parameterised
MappingLike(T) ==
    \/ T = Builtin("dict")
    \/ T.kind = "generic" /\ T.origin \in {"dict", "Mapping"}

\* C20: guess_type returns "array" for every list-, sequence- or tuple-like
\* type, "object" for every mapping-like type, bare or parameterised, and
\* the empty-object token {} for typing.Any.
C20_ContainerTokens ==
    GuessCall =>
        /\ ListLike(call.T) => ret = PyStr("array")
        /\ MappingLike(call.T) => ret = PyStr("object")
        /\ call.T = TypingAny => ret = EmptyDict

\* C21: a returned schema shares no mutable object with the signature:
\* whatever is mutated through a returned schema, the default the function
\* declares keeps the value it was declared with.
C21_FreshResult ==
    heap[Obj(0, "default")] = DeclaredHeap[Obj(0, "default")]

\* the CLI ran with a file path and a function name
MainCall == call.op = "main" /\ Len(call.args) >= 2

\* C22: the CLI prints the schema of the member whose name is exactly the
\* function name given, and exits with status 0; when the module has no
\* member of exactly that name it prints "Function <name> not found in
\* <file_path>" and no schema.
C22_CliExactName ==
    MainCall =>
        LET name == call.args[2]
        IN IF name \in Range(getmembers(call.defined))
           THEN name \in call.defined =>
                   /\ ret.kind = "exit" /\ ret.status = 0
                   /\ ret.stdout.kind = "dict" /\ ret.stdout.name = name
           ELSE /\ ret.kind = "exit"
                /\ ret.stdout = NotFound(name, call.args[1])

\* C23: `required` holds the required parameter names in the order the
\* parameters are declared in.
C23_RequiredInDeclarationOrder ==
    (SchemaCall /\ Returned) =>
        ret.required = SelectSeq(ret.order, LAMBDA n : n \in Range(ret.required))

\* C24: a parameter annotated int, bare or inside Annotated, gets the type
\* "integer", one annotated float gets "number" and one annotated str gets
\* "string".  A FieldInfo or dict in the metadata may set the type itself
\* (C13, C14); those parameters are left out here.
C24_IntegerToken ==
    (SchemaCall /\ Returned) =>
        \A p \in CallParams :
            LET T == EffectiveType(p)
                type == ret.properties[p.name].type
            IN ~ HasFieldItems(p) =>
                  /\ T = Builtin("int") => type = PyStr("integer")
                  /\ T = Builtin("float") => type = PyStr("number")
                  /\ T = Builtin("str") => type = PyStr("string")

\* to_dict() of the FieldInfo object `id`
DictOf(id) == to_dict([kind |-> "FieldInfo", attrs |-> fields[id]])

\* the attribute an operator writes
TargetOf(op) ==
    CASE op \in {"__ge__", "__rlshift__"} -> "minimum"
      [] op = "__gt__" -> "exclusive_minimum"
      [] op = "__le__" -> "maximum"
      [] op = "__lt__" -> "exclusive_maximum"

\* C25: f >= v (and v <= f) sets minimum, f > v exclusive_minimum, f <= v
\* maximum and f < v exclusive_maximum, each returning f itself; a <= F < b
\* is F with to_dict() holding minimum a and exclusiveMaximum b, and
\* a <= FieldInfo(description=d) <= b is an object whose to_dict() holds
\* minimum a, maximum b and description d and no other key.
C25_OperatorsSetBounds ==
    /\ expr.op \in {"__ge__", "__gt__", "__le__", "__lt__"} =>
          /\ fields[expr.self][TargetOf(expr.op)] = expr.value
          /\ expr.result = Self(expr.self)
    /\ expr.op = "a <= F < b" =>
          /\ expr.result = Self("F")
          /\ {"minimum", "exclusiveMaximum"} \subseteq DOMAIN DictOf("F")
          /\ DictOf("F")["minimum"] = expr.a
          /\ DictOf("F")["exclusiveMaximum"] = expr.b
    /\ expr.op = "a <= FieldInfo(description=d) <= b" =>
          /\ DOMAIN DictOf(expr.result.id) = {"minimum", "maximum", "description"}
          /\ DictOf(expr.result.id)["minimum"] = expr.a
          /\ DictOf(expr.result.id)["maximum"] = expr.b
          /\ DictOf(expr.result.id)["description"] = PyStr("The number")

\* 0 <= F < 1 was evaluated on an F whose maximum an earlier expression had
\* set
C25_Witness ==
    /\ expr.op = "a <= F < b"
    /\ expr.a = Value("int", "0") /\ expr.b = Value("int", "1")
    /\ fields["F"].maximum # PyNone
    /\ DictOf("F")["exclusiveMaximum"] = Value("int", "1")

\* C28: each operator of FieldInfo (>=, >, <=, <, value << f) changes
\* exactly one bound of the receiver, leaves every other field and every
\* other object as it was, and answers with the receiver itself, no copy
\* being made; so a bound holds what the last operator aimed at it wrote,
\* and it is still set in every later use of the object, the shared F
\* included.
C28_OneFieldInPlace ==
    [][/\ expr'.op \in Operators =>
            LET self == expr'.self
                target == TargetOf(expr'.op)
            IN /\ expr'.result = Self(self)
               /\ DOMAIN fields' = DOMAIN fields
               /\ fields'[self][target] = expr'.value
               /\ \A a \in DOMAIN F \ {target} : fields'[self][a] = fields[self][a]
               /\ \A o \in DOMAIN fields \ {self} : fields'[o] = fields[o]
       /\ expr'.op = "a <= F < b" =>
            \A a \in DOMAIN F \ {"minimum", "exclusive_maximum"} :
                fields'["F"][a] = fields["F"][a]
      ]_vars

\* value << F was evaluated on an F that still holds the maximum and the
\* exclusive minimum earlier expressions gave it
C28_Witness ==
    /\ expr.op = "__rlshift__"
    /\ fields["F"].minimum = expr.value
    /\ fields["F"].maximum # PyNone
    /\ fields["F"].exclusive_minimum # PyNone

Primitives == {Builtin("str"), Builtin("int"), Builtin("float"), Builtin("bool")}

\* a union of primitive types, None allowed among them
PrimitiveUnion(T) ==
    /\ T.kind = "Union"
    /\ Range(T.types) \subseteq Primitives \cup {NoneType}

\* the same members in every order
Reorderings(T) == {Union(NthPerm(T.types, r)) : r \in 0 .. Fact(Len(T.types)) - 1}

\* the tokens a result holds, be it one token or a list of them
TokenSet(r) == IF r.kind = "list" THEN Range(r.items) ELSE {r}

\* C26: the classification of a union of primitive types, None anywhere
\* among them, does not depend on the order of the members: every order
\* gives the same set of tokens, and a union whose members all classify to
\* one token gives that token itself, not a list, in every order.
C26_UnionOrderIndependent ==
    (GuessCall /\ PrimitiveUnion(call.T)) =>
        LET tokens == {guess_type(t) : t \in Range(call.T.types) \ {NoneType}}
        IN \A U \in Reorderings(call.T) :
              /\ TokenSet(guess_type(U)) = tokens
              /\ TokenSet(ret) = tokens
              /\ Cardinality(tokens) = 1 => (guess_type(U) \in tokens /\ ret \in tokens)

\* Union[float, None, int] came back as the single token, and so does
\* Union[int, None, float]
C26_Witness ==
    /\ GuessCall
    /\ call.T = Union(<<Builtin("float"), NoneType, Builtin("int")>>)
    /\ ret = PyStr("number")
    /\ guess_type(Union(<<Builtin("int"), NoneType, Builtin("float")>>)) = PyStr("number")

\* C27: in every returned schema `required` holds no name twice and only
\* keys of `properties`; a Literal parameter never goes through the general
\* rule: isinstance is not asked about a Literal, so a function of Literal
\* parameters always gets its schema, and a Literal that holds None is not
\* in `required` even without a default.
C27_RequiredWellFormed ==
    SchemaCall =>
        /\ Returned =>
              /\ Cardinality(Range(ret.required)) = Len(ret.required)
              /\ Range(ret.required) \subseteq DOMAIN ret.properties
              /\ \A p \in CallParams :
                    (IsLiteral(EffectiveType(p)) /\ PyNone \in Range(EffectiveType(p).values))
                        => p.name \notin Range(ret.required)
        /\ (\A p \in CallParams : IsLiteral(EffectiveType(p))) => Returned

\* a schema of two parameters came back with the Literal one that holds None
\* left out of `required` and the other one in it
C27_Witness ==
    /\ SchemaCall /\ Returned
    /\ Len(ret.required) = 1
    /\ \E p \in CallParams :
          /\ EffectiveType(p) = Literal(<<PyStr("a"), PyNone>>)
          /\ p.default = Empty
          /\ p.name \notin Range(ret.required)

\* a parameter whose type is an enum class and whose metadata names no enum
\* class and sets no field
EnumTyped(p) ==
    /\ IsEnumClass(EffectiveType(p))
    /\ MetaEnums(p) = <<>>
    /\ ~ HasFieldItems(p)

\* C29 as stated: a parameter whose type is an enum class gets `enum` = the
\* member names of the class, whether the annotation is the bare class or
\* Annotated[class, ...].
C29_EnumBareOrAnnotated ==
    (SchemaCall /\ Returned) =>
        \A p \in CallParams :
            EnumTyped(p) =>
                /\ "enum" \in DOMAIN ret.properties[p.name]
                /\ ret.properties[p.name].enum = MemberNames(EffectiveType(p))

\* C29 amended: a parameter whose type is an enum class gets `enum` = the
\* member names of the class when the annotation is Annotated[class, ...],
\* the base type being scanned with the metadata; a bare annotation of the
\* class gets a property without `enum`.
C29_EnumOnlyWhenAnnotated ==
    (SchemaCall /\ Returned) =>
        \A p \in CallParams :
            EnumTyped(p) =>
                IF is_annotated(p)
                THEN /\ "enum" \in DOMAIN ret.properties[p.name]
                     /\ ret.properties[p.name].enum = MemberNames(EffectiveType(p))
                ELSE "enum" \notin DOMAIN ret.properties[p.name]

\* a required parameter annotated with the bare class Color came back
\* without `enum`
C29_Witness ==
    /\ SchemaCall /\ Returned
    /\ \E p \in CallParams :
          /\ p.annotation = Color
          /\ p.default = Empty
          /\ p.name \in Range(ret.required)
          /\ DOMAIN ret.properties[p.name] = {"type", "description"}

====
